---- MODULE Spec2Model ----
(***************************************************************************)
(* Dockerfile optimizer: the HTTP handler `optimize` (src/app/main.py) and *)
(* the command line tool `main` / `optimize_dockerfile` (src/cli.py).      *)
(*                                                                         *)
(* Text is a sequence of tokens.  A token is either one character or one   *)
(* of the literal words the code searches for:                             *)
(*   "F3"  three backticks            "DF"  the word dockerfile (any case) *)
(*   "SUM" the literal ---SUMMARY---  "FR"  the word FROM (any case)       *)
(*   "NL"  \n     "CR"  \r     "SP"  a space     "x"  any other character  *)
(***************************************************************************)
EXTENDS Integers, Sequences, FiniteSets, TLC

VARIABLES hpc, req, envKey, calls, lastOutcome, data, hstatus, hresult, hsummary,
          cpc, argKey, inputArg, inputText, outputArg, retriesLeft, optimized,
          stdout, outfile, stderr, exitCode

vars == <<hpc, req, envKey, calls, lastOutcome, data, hstatus, hresult, hsummary,
          cpc, argKey, inputArg, inputText, outputArg, retriesLeft, optimized,
          stdout, outfile, stderr, exitCode>>

httpVars == <<hpc, req, hstatus, hresult, hsummary>>
cliVars == <<cpc, argKey, inputArg, inputText, outputArg, retriesLeft, optimized,
             stdout, outfile, stderr, exitCode>>

----------------------------------------------------------------------------
(* Bounds of the model *)

\* longest free-form reply drawn for the extractor
MaxLen == 5
\* longest Dockerfile body X placed inside a formatted reply
MaxX == 2
\* longest summary text Y placed after the delimiter of a formatted reply
MaxY == 1
\* longest reply the upstream returns in the end-to-end specification
MaxCtl == 1

----------------------------------------------------------------------------
(* Text *)

Alphabet == {"F3", "DF", "SUM", "FR", "NL", "CR", "SP", "x"}

\* str.isspace(): what str.strip() removes and what \s matches
IsSpace(t) == t \in {"NL", "CR", "SP"}

\* the line boundaries of str.splitlines()
IsLineEnd(t) == t \in {"NL", "CR"}

Texts(n) == UNION {[1..k -> Alphabet] : k \in 0..n}

Tail2(s, k) == SubSeq(s, k, Len(s))

\* index of the first token of s satisfying nothing but equality with t, 0 if none
FirstIndex(s, t) ==
  IF \E i \in 1..Len(s) : s[i] = t
  THEN CHOOSE i \in 1..Len(s) : s[i] = t /\ \A j \in 1..(i-1) : s[j] # t
  ELSE 0

\* str.strip()
Strip(s) ==
  IF \A i \in 1..Len(s) : IsSpace(s[i]) THEN <<>>
  ELSE LET a == CHOOSE i \in 1..Len(s) : ~IsSpace(s[i]) /\ \A j \in 1..(i-1) : IsSpace(s[j])
           b == CHOOSE i \in 1..Len(s) : ~IsSpace(s[i]) /\ \A j \in (i+1)..Len(s) : IsSpace(s[j])
       IN SubSeq(s, a, b)

\* str.splitlines(): \n, \r and \r\n end a line; no empty last line
RECURSIVE SplitLines(_)
SplitLines(s) ==
  IF s = <<>> THEN <<>>
  ELSE IF \A i \in 1..Len(s) : ~IsLineEnd(s[i]) THEN <<s>>
  ELSE LET k == CHOOSE i \in 1..Len(s) : IsLineEnd(s[i]) /\ \A j \in 1..(i-1) : ~IsLineEnd(s[j])
           w == IF s[k] = "CR" /\ k < Len(s) /\ s[k+1] = "NL" THEN 2 ELSE 1
       IN <<SubSeq(s, 1, k-1)>> \o SplitLines(Tail2(s, k + w))

\* "\n".join(lines)
RECURSIVE JoinLines(_)
JoinLines(lines) ==
  IF lines = <<>> THEN <<>>
  ELSE IF Len(lines) = 1 THEN lines[1]
  ELSE lines[1] \o <<"NL">> \o JoinLines(Tail(lines))

\* a defect: the split is made at the last delimiter (rsplit)
SplitSummaryLast(s) ==
  IF \A i \in 1..Len(s) : s[i] # "SUM" THEN <<s>>
  ELSE LET k == CHOOSE i \in 1..Len(s) : s[i] = "SUM" /\ \A j \in (i+1)..Len(s) : s[j] # "SUM"
       IN <<SubSeq(s, 1, k-1), Tail2(s, k+1)>>

\* content.split("---SUMMARY---", 1)
SplitSummary(s) ==
  LET k == FirstIndex(s, "SUM")
  IN IF k = 0 THEN <<s>> ELSE <<SubSeq(s, 1, k-1), Tail2(s, k+1)>>

\* ln.strip().upper().startswith("FROM ")
IsFromLine(ln) ==
  LET t == Strip(ln) IN Len(t) >= 2 /\ t[1] = "FR" /\ t[2] = "SP"

----------------------------------------------------------------------------
(* Values of the decoded JSON body: a string, or any other truthy JSON value *)

Str(t) == [isStr |-> TRUE, toks |-> t]

\* a truthy content that is no string (a list of content parts, a number, ...)
NonStr == [isStr |-> FALSE, toks |-> <<>>]

----------------------------------------------------------------------------
(* Response extractor *)

\* re.search(r"```(?:dockerfile)?\s*([\s\S]*?)```", s, re.IGNORECASE):
\* the leftmost opening fence that a closing fence follows, the optional word
\* and the white space after it skipped, the capture up to the next fence
FenceSearch(s) ==
  LET i == FirstIndex(s, "F3")
  IN IF i = 0 \/ FirstIndex(Tail2(s, i+1), "F3") = 0
     THEN [found |-> FALSE, group |-> <<>>]
     ELSE LET j == i + FirstIndex(Tail2(s, i+1), "F3")
              a == IF s[i+1] = "DF" THEN i + 2 ELSE i + 1
              b == CHOOSE k \in a..j : (\A m \in a..(k-1) : IsSpace(s[m])) /\ ~IsSpace(s[k])
          IN [found |-> TRUE, group |-> SubSeq(s, b, j-1)]

\* next((i for i, ln in enumerate(lines) if <ln is a FROM line>), None); 0 is None
FirstFromLine(lines) ==
  IF \E i \in 1..Len(lines) : IsFromLine(lines[i])
  THEN CHOOSE i \in 1..Len(lines) :
         IsFromLine(lines[i]) /\ \A j \in 1..(i-1) : ~IsFromLine(lines[j])
  ELSE 0

\* a defect: the lines before the first FROM line are kept
FromFallbackKeepAll(section) ==
  LET lines == SplitLines(section)
      start_idx == FirstFromLine(lines)
  IN IF start_idx # 0 THEN Strip(JoinLines(lines)) ELSE <<>>

\* a defect: the joined lines are returned without the final strip()
FromFallbackNoStrip(section) ==
  LET lines == SplitLines(section)
      start_idx == FirstFromLine(lines)
  IN IF start_idx # 0
     THEN JoinLines(SubSeq(lines, start_idx, Len(lines)))
     ELSE <<>>

\* the fallback of both extractors: from the first FROM line to the end;
\* dockerfile_content keeps its initial "" when there is no such line
FromFallback(section) ==
  LET lines == SplitLines(section)
      start_idx == FirstFromLine(lines)
  IN IF start_idx # 0
     THEN Strip(JoinLines(SubSeq(lines, start_idx, Len(lines))))
     ELSE <<>>

\* the fenced block, else the FROM fallback, of one Dockerfile section
SectionDockerfile(section) ==
  LET match == FenceSearch(section)
  IN IF match.found THEN Strip(match.group) ELSE FromFallback(section)

\* a defect: the whole reply is searched although the delimiter is present
HttpExtractNoSplit(content) ==
  IF ~content.isStr
  THEN [result |-> content, summary |-> <<>>]
  ELSE [result |-> Str(SectionDockerfile(content.toks)), summary |-> <<>>]

\* optimize, the try block after the empty check: (dockerfile_content, summary_content)
HttpExtract(content) ==
  IF ~content.isStr
  THEN \* content.split raises; except: dockerfile_content = content
       [result |-> content, summary |-> <<>>]
  ELSE LET parts == SplitSummary(content.toks)
       IN IF Len(parts) = 2
          THEN [result  |-> Str(SectionDockerfile(Strip(parts[1]))),
                summary |-> Strip(parts[2])]
          ELSE [result  |-> Str(SectionDockerfile(content.toks)),
                summary |-> <<>>]

\* optimize_dockerfile, the try block after the empty check: dockerfile_content
CliExtract(content) ==
  IF ~content.isStr
  THEN \* content.split raises; except: dockerfile_content = content
       content
  ELSE LET parts == SplitSummary(content.toks)
           dockerfile_section == Strip(parts[1])
       IN Str(SectionDockerfile(dockerfile_section))

----------------------------------------------------------------------------
(* Inputs *)

\* a Python None / an absent value, among strings
None == "<none>"

\* bool(v) of an optional string
Truthy(v) == v # None /\ v # ""

\* POST bodies: the dockerfile field absent, or present with a text
Requests == {[present |-> FALSE, dockerfile |-> <<>>]} \cup
            {[present |-> TRUE, dockerfile |-> t] :
               t \in {<<>>, <<"SP", "NL">>, <<"FR", "SP", "x">>}}

\* ABACUS_API_KEY: unset, set to the empty string, set
EnvKeys == {None, "", "sk-env"}

\* --api-key: not given, given empty, given
ArgKeys == {None, "", "sk-arg"}

\* what the input file or standard input holds
InputTexts == {<<>>, <<"SP", "NL">>, <<"FR", "SP", "x">>}

\* status codes the upstream answers with
UpstreamStatuses == {200, 400, 404, 429, 500, 503}

\* the decoded JSON body of an upstream answer
Bodies(texts) ==
  {[kind |-> k, content |-> Str(<<>>)] : k \in {"notdict", "nochoices", "badchoice"}}
  \cup {[kind |-> "choice", content |-> c] : c \in {Str(t) : t \in texts} \cup {NonStr}}

\* one attempt's outcome
Outcome(k, st) == [kind |-> k, status |-> st]

NoOutcome == Outcome("none", 0)

\* a reply in the requested format around Dockerfile X and summary Y
FullReply(X, Y) ==
  <<"F3", "DF", "NL">> \o X \o <<"NL", "F3", "NL", "SUM", "NL">> \o Y

\* a reply that is one fenced block around X, tagged `dockerfile` or untagged
FencedReply(tag, X) == <<"F3">> \o tag \o <<"NL">> \o X \o <<"NL", "F3">>

\* text of plain lines: no fence, no delimiter
LineAlphabet == {"FR", "NL", "CR", "SP", "x"}

Lines(n) == UNION {[1..k -> LineAlphabet] : k \in 0..n}

\* a reply of plain lines around a FROM line
FromReply(P, Q) == P \o <<"FR", "SP", "x">> \o Q

\* the replies the extractor is run on
Replies ==
  Texts(MaxLen)
  \cup {FullReply(X, Y) : X \in Texts(MaxX), Y \in Texts(MaxY)}
  \cup {FencedReply(tag, X) : tag \in {<<>>, <<"DF">>}, X \in Texts(MaxX)}
  \cup {FromReply(P, Q) : P \in Lines(MaxX), Q \in Lines(MaxX)}

\* the replies of the end-to-end specification
CtlReplies ==
  Texts(MaxCtl) \cup {FullReply(<<"FR", "SP", "x">>, <<"x">>), <<"FR", "SP", "x">>}

----------------------------------------------------------------------------
(* Shared steps *)

\* content = "" ... content = message.get("content", "") with its try/except
ContentOf(d) == IF d.kind = "choice" THEN d.content ELSE Str(<<>>)

\* bool(content)
NonEmpty(c) == ~c.isStr \/ c.toks # <<>>

\* status_forcelist of the CLI's Retry
StatusForcelist == {429, 500, 502, 503, 504}

\* total of the CLI's Retry
RetryTotal == 2

\* Retry's allowed_methods, left at the library default by the CLI
AllowedMethods == {"HEAD", "GET", "PUT", "DELETE", "OPTIONS", "TRACE"}

\* Retry.is_retry(method, status_code): the status counts only for a method
\* the policy allows, and session.post sends a POST
IsRetry(method, status) == method \in AllowedMethods /\ status \in StatusForcelist

----------------------------------------------------------------------------
(* POST /api/optimize *)

NoData == [kind |-> "none", content |-> Str(<<>>)]

Undecodable == [kind |-> "undecodable", content |-> Str(<<>>)]

\* a defect: the credential is looked up only after the upstream call
HttpRejectionNoKeyCheck(r, key) ==
  IF ~r.present THEN 422
  ELSE IF r.dockerfile = <<>> \/ Strip(r.dockerfile) = <<>> THEN 400
  ELSE 0

\* the status the request is rejected with before any upstream call, 0 if none:
\* the body model's required field (422 from the framework), then the two checks
HttpRejection(r, key) ==
  IF ~r.present THEN 422
  ELSE IF r.dockerfile = <<>> \/ Strip(r.dockerfile) = <<>> THEN 400
  ELSE IF ~Truthy(key) THEN 500
  ELSE 0

HttpFail(code) ==
  /\ hpc' = "done"
  /\ hstatus' = code
  /\ UNCHANGED <<hresult, hsummary>>

HttpValidate ==
  /\ hpc = "start"
  /\ LET code == HttpRejection(req, envKey)
     IN IF code # 0
        THEN HttpFail(code)
        ELSE hpc' = "call" /\ UNCHANGED <<hstatus, hresult, hsummary>>
  /\ UNCHANGED <<req, envKey, calls, lastOutcome, data>>
  /\ UNCHANGED cliVars

\* the status the try block around requests.post ends with, 0 when it goes on
HttpCallStatus(o) ==
  IF o.kind # "status" THEN 502
  ELSE IF o.status >= 400 THEN o.status
  ELSE 0

\* requests.post(...), once, no retry adapter mounted; resp.json()
HttpCall ==
  /\ hpc = "call"
  /\ calls' = calls + 1
  /\ \E o \in {Outcome(k, 0) : k \in {"connect_error", "read_error", "timeout"}}
              \cup {Outcome("status", st) : st \in UpstreamStatuses} :
       /\ lastOutcome' = o
       /\ IF HttpCallStatus(o) # 0
          THEN HttpFail(HttpCallStatus(o)) /\ UNCHANGED data
          ELSE \E body \in Bodies(CtlReplies) \cup {Undecodable} :
                 /\ data' = body
                 /\ IF body = Undecodable
                    THEN HttpFail(502)
                    ELSE /\ hpc' = "parse"
                         /\ UNCHANGED <<hstatus, hresult, hsummary>>
  /\ UNCHANGED <<req, envKey>>
  /\ UNCHANGED cliVars

\* a defect: an extraction that finds nothing fails the request
HttpAnswerRejectsEmptyResult(content) ==
  LET e == HttpExtract(content)
  IN IF ~NonEmpty(content) \/ (e.result.isStr /\ e.result.toks = <<>>)
     THEN [status |-> 502, result |-> <<>>, summary |-> <<>>]
     ELSE IF ~e.result.isStr
     THEN [status |-> 500, result |-> <<>>, summary |-> <<>>]
     ELSE [status |-> 200, result |-> e.result.toks, summary |-> e.summary]

\* from the decoded body to the response: the empty check, the extraction,
\* OptimizeResponse(result=..., summary=...) whose fields must be strings
HttpAnswer(content) ==
  IF ~NonEmpty(content)
  THEN [status |-> 502, result |-> <<>>, summary |-> <<>>]
  ELSE LET e == HttpExtract(content)
       IN IF ~e.result.isStr
          THEN [status |-> 500, result |-> <<>>, summary |-> <<>>]
          ELSE [status |-> 200, result |-> e.result.toks, summary |-> e.summary]

HttpParse ==
  /\ hpc = "parse"
  /\ LET a == HttpAnswer(ContentOf(data))
     IN /\ hstatus' = a.status
        /\ hresult' = a.result
        /\ hsummary' = a.summary
  /\ hpc' = "done"
  /\ UNCHANGED <<req, envKey, calls, lastOutcome, data>>
  /\ UNCHANGED cliVars

----------------------------------------------------------------------------
(* cli.py *)

\* -i: not given (standard input is read), or a path
InputArgs == {None, "Dockerfile"}

\* -o: not given (standard output is written), or a path
OutputArgs == {None, "out.Dockerfile"}

\* what reading the input ends with: an exception, or the text read
ReadOutcomes(input) ==
  {[kind |-> k, text |-> <<>>] :
     k \in IF Truthy(input) THEN {"FileNotFoundError", "Exception"}
                            ELSE {"KeyboardInterrupt", "Exception"}}
  \cup {[kind |-> "read", text |-> t] : t \in InputTexts}

\* main up to the call of optimize_dockerfile: the exit code (-1: it goes on),
\* whether the input was read, and the lines written to the error stream
CliStartResult(akey, ekey, input, rd) ==
  LET api_key == IF Truthy(akey) THEN akey ELSE ekey
  IN IF ~Truthy(api_key)
     THEN [exit |-> 1, read |-> FALSE,
           diag |-> <<"Error: ABACUS_API_KEY environment variable not set",
                      "Set it with: export ABACUS_API_KEY=your_key_here">>]
     ELSE IF rd.kind # "read"
     THEN [exit |-> 1, read |-> FALSE, diag |-> <<"Error: input: " \o rd.kind>>]
     ELSE IF Strip(rd.text) = <<>>
     THEN [exit |-> 1, read |-> TRUE, diag |-> <<"Error: No Dockerfile content provided">>]
     ELSE [exit |-> -1, read |-> TRUE, diag |-> <<"Optimizing Dockerfile...">>]

\* print(..., file=sys.stderr); sys.exit(1)
CliFail(diag) ==
  /\ stderr' = stderr \o diag
  /\ exitCode' = 1
  /\ cpc' = "exit"

CliStart ==
  /\ cpc = "start"
  /\ \E rd \in ReadOutcomes(inputArg) :
       LET r == CliStartResult(argKey, envKey, inputArg, rd)
       IN IF r.exit # -1
          THEN /\ CliFail(r.diag)
               /\ inputText' = IF r.read THEN rd.text ELSE inputText
               /\ UNCHANGED retriesLeft
          ELSE /\ inputText' = rd.text
               /\ stderr' = stderr \o r.diag
               /\ retriesLeft' = RetryTotal
               /\ cpc' = "call"
               /\ UNCHANGED exitCode
  /\ UNCHANGED <<argKey, inputArg, outputArg, optimized, stdout, outfile>>
  /\ UNCHANGED <<envKey, calls, lastOutcome, data>>
  /\ UNCHANGED httpVars

\* whether the session's adapter sends the request again after outcome o with
\* `left` retries of Retry(total=2) left: a failed connection counts against
\* total for any method; a read error or a status only for an allowed method
CliRetries(o, left) ==
  /\ left > 0
  /\ \/ o.kind = "connect_error"
     \/ o.kind \in {"read_error", "timeout"} /\ "POST" \in AllowedMethods
     \/ o.kind = "status" /\ IsRetry("POST", o.status)

\* the RuntimeError optimize_dockerfile raises for a final outcome, "" if none
CliCallError(o) ==
  IF o.kind = "timeout" THEN "Error: Request timeout - try with a simpler Dockerfile"
  ELSE IF o.kind # "status" THEN "Error: Abacus request failed: " \o o.kind
  ELSE IF o.status >= 400 THEN "Error: Abacus request failed: API request failed"
  ELSE ""

\* one attempt of session.post(...) under the mounted retry adapter; resp.json()
CliAttempt ==
  /\ cpc = "call"
  /\ calls' = calls + 1
  /\ \E o \in {Outcome(k, 0) : k \in {"connect_error", "read_error", "timeout"}}
              \cup {Outcome("status", st) : st \in UpstreamStatuses} :
       /\ lastOutcome' = o
       /\ IF CliRetries(o, retriesLeft)
          THEN /\ retriesLeft' = retriesLeft - 1
               /\ UNCHANGED <<cpc, stderr, exitCode, data>>
          ELSE IF CliCallError(o) # ""
          THEN CliFail(<<CliCallError(o)>>) /\ UNCHANGED <<retriesLeft, data>>
          ELSE \E body \in Bodies(CtlReplies) \cup {Undecodable} :
                 /\ data' = body
                 /\ UNCHANGED retriesLeft
                 /\ IF body = Undecodable
                    THEN CliFail(<<"Error: Abacus request failed: undecodable body">>)
                    ELSE cpc' = "parse" /\ UNCHANGED <<stderr, exitCode>>
  /\ UNCHANGED <<argKey, inputArg, inputText, outputArg, optimized, stdout, outfile>>
  /\ UNCHANGED envKey
  /\ UNCHANGED httpVars

\* optimize_dockerfile from the decoded body on: the empty check, the extraction
CliAnswer(content) ==
  IF ~NonEmpty(content)
  THEN [raised |-> TRUE, value |-> Str(<<>>)]
  ELSE [raised |-> FALSE, value |-> CliExtract(content)]

CliParse ==
  /\ cpc = "parse"
  /\ LET a == CliAnswer(ContentOf(data))
     IN IF a.raised
        THEN CliFail(<<"Error: Empty response from Abacus ChatLLM">>) /\ UNCHANGED optimized
        ELSE /\ optimized' = a.value
             /\ cpc' = "write"
             /\ UNCHANGED <<stderr, exitCode>>
  /\ UNCHANGED <<argKey, inputArg, inputText, outputArg, retriesLeft, stdout, outfile>>
  /\ UNCHANGED <<envKey, calls, lastOutcome, data>>
  /\ UNCHANGED httpVars

NotWritten == [written |-> FALSE, text |-> Str(<<>>)]

\* a defect: a failed write is reported and the run still succeeds
CliWriteExitLenient(ok) == 0

\* the exit code after open(args.output, 'w') / f.write(optimized)
CliWriteExit(ok) == IF ok THEN 0 ELSE 1

\* main after optimize_dockerfile returned: the output file, whose open or write
\* may fail, or print(optimized) on standard output
CliWrite ==
  /\ cpc = "write"
  /\ IF Truthy(outputArg)
     THEN \E opened \in BOOLEAN :
            \* f.write raises TypeError for a value that is no string
            LET ok == opened /\ optimized.isStr
            IN /\ outfile' = IF ok THEN [written |-> TRUE, text |-> optimized] ELSE outfile
               /\ stderr' = stderr \o
                    <<IF ok THEN "Optimized Dockerfile written to: " \o outputArg
                            ELSE "Error writing to output file">>
               /\ exitCode' = CliWriteExit(ok)
               /\ UNCHANGED stdout
     ELSE /\ stdout' = Append(stdout, optimized)
          /\ exitCode' = 0
          /\ UNCHANGED <<outfile, stderr>>
  /\ cpc' = "exit"
  /\ UNCHANGED <<argKey, inputArg, inputText, outputArg, retriesLeft, optimized>>
  /\ UNCHANGED <<envKey, calls, lastOutcome, data>>
  /\ UNCHANGED httpVars

----------------------------------------------------------------------------
(* Specifications *)

\* one invocation of one entry point, from its start
Init ==
  /\ calls = 0
  /\ lastOutcome = NoOutcome
  /\ data = NoData
  /\ envKey \in EnvKeys
  /\ hstatus = 0 /\ hresult = <<>> /\ hsummary = <<>>
  /\ inputText = <<>> /\ retriesLeft = RetryTotal /\ optimized = Str(<<>>)
  /\ stdout = <<>> /\ outfile = NotWritten /\ stderr = <<>> /\ exitCode = -1
  /\ \/ /\ hpc = "start" /\ cpc = "idle"
        /\ req \in Requests
        /\ argKey = None /\ inputArg = None /\ outputArg = None
     \/ /\ hpc = "idle" /\ cpc = "start"
        /\ req = [present |-> FALSE, dockerfile |-> <<>>]
        /\ argKey \in ArgKeys /\ inputArg \in InputArgs /\ outputArg \in OutputArgs

Next ==
  \/ HttpValidate
  \/ HttpCall
  \/ HttpParse
  \/ CliStart
  \/ CliAttempt
  \/ CliParse
  \/ CliWrite

Spec == Init /\ [][Next]_vars

\* both extractors on the same decoded body, from the point where it arrived
InitExtract ==
  /\ calls = 1
  /\ lastOutcome = Outcome("status", 200)
  /\ data \in Bodies(Replies)
  /\ envKey = "sk-env"
  /\ hpc = "parse" /\ cpc = "parse"
  /\ req = [present |-> TRUE, dockerfile |-> <<"FR", "SP", "x">>]
  /\ hstatus = 0 /\ hresult = <<>> /\ hsummary = <<>>
  /\ argKey = None /\ inputArg = None /\ outputArg = None
  /\ inputText = <<"FR", "SP", "x">> /\ retriesLeft = RetryTotal /\ optimized = Str(<<>>)
  /\ stdout = <<>> /\ outfile = NotWritten
  /\ stderr = <<"Optimizing Dockerfile...">> /\ exitCode = -1

NextExtract ==
  \/ HttpParse
  \/ CliParse

SpecExtract == InitExtract /\ [][NextExtract]_vars

----------------------------------------------------------------------------
(* The reply the upstream returned, and what it contains *)

Reply == ContentOf(data).toks

\* the upstream returned a non-empty content string
StringReply == data.kind = "choice" /\ data.content.isStr /\ data.content.toks # <<>>

HttpAnswered == hpc = "done" /\ calls > 0 /\ data.kind \notin {"none", "undecodable"}

CliReturned == cpc = "write"

HasDelimiter(t) == \E i \in 1..Len(t) : t[i] = "SUM"

FenceCount(t) == Cardinality({i \in 1..Len(t) : t[i] = "F3"})

\* position i opens a line that is, trimmed and upper-cased, "FROM " and more:
\* only spaces since the line began, then FROM, a space, and on the same line
\* something that is no white space
FromAt(t, i) ==
  /\ t[i] = "FR"
  /\ i < Len(t) /\ t[i+1] = "SP"
  /\ \E k \in (i+2)..Len(t) : ~IsSpace(t[k]) /\ \A m \in (i+2)..k : ~IsLineEnd(t[m])
  /\ \E b \in 1..i : /\ b = 1 \/ IsLineEnd(t[b-1])
                     /\ \A m \in b..(i-1) : t[m] = "SP"

HasFromLine(t) == \E i \in 1..Len(t) : FromAt(t, i)

FirstFrom(t) == CHOOSE i \in 1..Len(t) : FromAt(t, i) /\ \A j \in 1..(i-1) : ~FromAt(t, j)

\* every line boundary (\r\n, \r, \n) written as one \n
RECURSIVE UnixLines(_)
UnixLines(t) ==
  IF t = <<>> THEN <<>>
  ELSE IF t[1] = "CR" /\ Len(t) > 1 /\ t[2] = "NL" THEN <<"NL">> \o UnixLines(Tail2(t, 3))
  ELSE IF t[1] = "CR" THEN <<"NL">> \o UnixLines(Tail(t))
  ELSE <<t[1]>> \o UnixLines(Tail(t))

\* the reply is ```dockerfile \n X \n ``` \n ---SUMMARY--- \n Y, X free of fences;
\* p is the closing fence
FullClose(t) == 3 + FirstIndex(Tail2(t, 4), "F3")

IsFull(t) ==
  /\ Len(t) >= 8
  /\ SubSeq(t, 1, 3) = <<"F3", "DF", "NL">>
  /\ FirstIndex(Tail2(t, 4), "F3") >= 2
  /\ LET p == FullClose(t)
     IN /\ Len(t) >= p + 3
        /\ t[p-1] = "NL"
        /\ SubSeq(t, p+1, p+3) = <<"NL", "SUM", "NL">>

FullX(t) == SubSeq(t, 4, FullClose(t) - 2)

FullY(t) == Tail2(t, FullClose(t) + 4)

\* the reply is one fenced block ``` [dockerfile] \n X \n ```, X free of fences
IsFenced(t) ==
  /\ Len(t) >= 4
  /\ FenceCount(t) = 2
  /\ t[1] = "F3" /\ t[Len(t)] = "F3" /\ t[Len(t)-1] = "NL"
  /\ \/ t[2] = "NL"
     \/ t[2] = "DF" /\ Len(t) >= 5 /\ t[3] = "NL"

FencedX(t) == SubSeq(t, IF t[2] = "DF" THEN 4 ELSE 3, Len(t) - 2)

----------------------------------------------------------------------------
(* Properties of the extractor, under SpecExtract *)

NoMarkers(t) == ~HasDelimiter(t) /\ FenceCount(t) = 0 /\ ~HasFromLine(t)

\* C1: a reply with no delimiter, no fence and no FROM line comes back unchanged
\* as the Dockerfile, from the HTTP handler and from the CLI alike.
C1_RawReplyUnchanged ==
  (StringReply /\ NoMarkers(Reply)) =>
    /\ HttpAnswered => hstatus = 200 /\ hresult = Reply
    /\ CliReturned => optimized = Str(Reply)

\* C2 as stated: a reply ```dockerfile \n X \n ``` \n ---SUMMARY--- \n Y with X
\* free of fences gives the HTTP handler exactly (X trimmed, Y trimmed).
C2_FullReplyPair ==
  (StringReply /\ IsFull(Reply) /\ HttpAnswered) =>
    /\ hstatus = 200
    /\ hresult = Strip(FullX(Reply))
    /\ hsummary = Strip(FullY(Reply))

\* C2 amended: the same, for X free of fences and of the delimiter; Y may hold
\* the delimiter again, the reply is split at its first occurrence only.
C2_FullReplyPairDelimiterFreeX ==
  (StringReply /\ IsFull(Reply) /\ ~HasDelimiter(FullX(Reply)) /\ HttpAnswered) =>
    /\ hstatus = 200
    /\ hresult = Strip(FullX(Reply))
    /\ hsummary = Strip(FullY(Reply))

C2_Witness ==
  /\ StringReply /\ IsFull(Reply) /\ HttpAnswered
  /\ ~HasDelimiter(FullX(Reply)) /\ HasDelimiter(FullY(Reply))
  /\ Strip(FullX(Reply)) # FullX(Reply) /\ hresult # <<>>

FromCase(t) == ~HasDelimiter(t) /\ FenceCount(t) < 2 /\ HasFromLine(t)

\* C3 as stated: with no delimiter and no fenced block, both extractors return
\* the trimmed text of the reply from its first FROM line to its end.
C3_FromLineOnward ==
  (StringReply /\ FromCase(Reply)) =>
    LET rest == Strip(Tail2(Reply, FirstFrom(Reply)))
    IN /\ HttpAnswered => hstatus = 200 /\ hresult = rest
       /\ CliReturned => optimized = Str(rest)

\* C3 amended: the lines from the first FROM line on, in order and each followed
\* by a single \n whatever ended it in the reply, trimmed.
C3_FromLineOnwardUnixLines ==
  (StringReply /\ FromCase(Reply)) =>
    LET rest == Strip(UnixLines(Tail2(Reply, FirstFrom(Reply))))
    IN /\ HttpAnswered => hstatus = 200 /\ hresult = rest
       /\ CliReturned => optimized = Str(rest)

C3_Witness ==
  /\ StringReply /\ FromCase(Reply) /\ HttpAnswered /\ CliReturned
  /\ LET i == FirstFrom(Reply)
     IN /\ \E j \in 1..(i-1) : ~IsSpace(Reply[j])
        /\ \E j \in (i+1)..(Len(Reply)-1) : Reply[j] = "CR" /\ ~IsSpace(Reply[j+1])
  /\ hresult = optimized.toks /\ Len(hresult) >= 5

\* C4: the HTTP summary is empty exactly when the reply has no delimiter or only
\* white space after it; a reply that is one fenced block around X, with no
\* delimiter, gives (X trimmed, "").
C4_SummaryEmptyIffNoDelimiter ==
  (StringReply /\ HttpAnswered) =>
    /\ hstatus = 200
    /\ hsummary = <<>> <=>
         \/ ~HasDelimiter(Reply)
         \/ \A i \in (FirstIndex(Reply, "SUM") + 1)..Len(Reply) : IsSpace(Reply[i])
    /\ (IsFenced(Reply) /\ ~HasDelimiter(Reply)) =>
         hresult = Strip(FencedX(Reply)) /\ hsummary = <<>>

C4_Witness ==
  /\ StringReply /\ HttpAnswered
  /\ IsFenced(Reply) /\ ~HasDelimiter(Reply)
  /\ Strip(FencedX(Reply)) # FencedX(Reply)
  /\ hresult # <<>> /\ hsummary = <<>>

\* C7: a non-empty content string never fails in extraction: the HTTP handler
\* answers 200 and the CLI function returns a string; when parsing raises (the
\* content is no string), the CLI function returns the content as it came.
C7_ExtractionNeverFails ==
  /\ (StringReply /\ hpc = "done") => hstatus = 200
  /\ (StringReply /\ cpc # "parse") =>
       cpc = "write" /\ exitCode = -1 /\ optimized.isStr
  /\ (data.kind = "choice" /\ ~data.content.isStr /\ cpc # "parse") =>
       cpc = "write" /\ optimized = data.content

C7_Witness ==
  /\ StringReply /\ hpc = "done" /\ cpc = "write"
  /\ NoMarkers(Reply)
  /\ hstatus = 200 /\ hresult = <<>> /\ optimized = Str(<<>>)

\* C10: on every non-empty reply string the HTTP handler and the CLI extract
\* the same Dockerfile text.
C10_ExtractorsAgree ==
  (StringReply /\ hpc = "done" /\ cpc = "write") =>
    hstatus = 200 /\ optimized = Str(hresult)

C10_Witness ==
  /\ StringReply /\ hpc = "done" /\ cpc = "write"
  /\ ~HasDelimiter(Reply) /\ FenceCount(Reply) = 0
  /\ IsSpace(Reply[1]) /\ IsSpace(Reply[Len(Reply)])
  /\ hresult # <<>> /\ optimized = Str(hresult)

----------------------------------------------------------------------------
(* Properties of the two entry points, under Spec *)

HttpInput == hpc # "idle"

CliInput == cpc # "idle"

\* api_key = args.api_key or os.getenv("ABACUS_API_KEY") is falsy
CliNoCredential == ~Truthy(argKey) /\ ~Truthy(envKey)

\* C5: no request goes out when the Dockerfile input is missing, empty or white
\* space only, or when there is no credential.
C5_NoCallAfterRejection ==
  /\ (HttpInput /\ (~req.present \/ Strip(req.dockerfile) = <<>> \/ ~Truthy(envKey)))
       => calls = 0
  /\ (CliInput /\ (CliNoCredential \/ Strip(inputText) = <<>>)) => calls = 0

C5_Witness ==
  /\ hpc = "done" /\ hstatus = 500
  /\ req.present /\ Strip(req.dockerfile) # <<>> /\ ~Truthy(envKey)
  /\ calls = 0

\* C6: a failing POST /api/optimize ends with 400 (field missing or blank), 500
\* (no credential), the upstream's own status (400 or more), or 502 (transport
\* error, undecodable body, empty choices or content), and with nothing else;
\* an empty content is never answered 200.
C6_FailureStatuses ==
  /\ (hpc = "done" /\ hstatus # 200) =>
       \/ hstatus = 400 /\ calls = 0 /\ (~req.present \/ Strip(req.dockerfile) = <<>>)
       \/ hstatus = 500 /\ calls = 0 /\ ~Truthy(envKey)
       \/ /\ calls = 1 /\ lastOutcome.kind = "status" /\ lastOutcome.status >= 400
          /\ hstatus = lastOutcome.status
       \/ /\ hstatus = 502 /\ calls = 1
          /\ \/ lastOutcome.kind # "status"
             \/ data = Undecodable
             \/ ~NonEmpty(ContentOf(data))
  /\ (hpc = "done" /\ (~req.present \/ Strip(req.dockerfile) = <<>>)) => hstatus = 400
  /\ (hpc = "done" /\ hstatus = 200) => NonEmpty(ContentOf(data))

\* C8: the HTTP handler sends at most one request; the CLI at most three, a
\* further attempt only after a status in {429, 500, 502, 503, 504}, and any
\* other status of 400 or more ends the run, failed, after a single attempt.
C8_AttemptsAndRetries ==
  /\ HttpInput => calls <= 1
  /\ CliInput => calls <= RetryTotal + 1
  /\ (cpc = "call" /\ calls > 0) =>
       lastOutcome.kind = "status" /\ lastOutcome.status \in StatusForcelist
  /\ (CliInput /\ lastOutcome.kind = "status" /\ lastOutcome.status >= 400
        /\ lastOutcome.status \notin StatusForcelist) =>
       cpc = "exit" /\ exitCode = 1 /\ calls = 1

\* the run obtained the optimized Dockerfile and wrote it where it was asked to
CliSucceeded ==
  /\ ~CliNoCredential
  /\ Strip(inputText) # <<>>
  /\ calls >= 1 /\ lastOutcome.kind = "status" /\ lastOutcome.status < 400
  /\ data.kind \notin {"none", "undecodable"} /\ NonEmpty(ContentOf(data))
  /\ IF Truthy(outputArg)
     THEN outfile = [written |-> TRUE, text |-> optimized] /\ stdout = <<>>
     ELSE stdout = <<optimized>> /\ ~outfile.written

\* C9: main exits 1, with nothing on standard output, when the credential or the
\* input is missing, unreadable or blank, when the upstream call or the empty
\* check fails, or when the output file cannot be written; it exits 0 only when
\* the optimized Dockerfile was obtained and written.
C9_ExitCodes ==
  cpc = "exit" =>
    /\ exitCode \in {0, 1}
    /\ exitCode = 1 => stdout = <<>>
    /\ exitCode = 0 <=> CliSucceeded

C9_Witness ==
  /\ cpc = "exit" /\ exitCode = 1
  /\ Truthy(outputArg) /\ optimized.isStr /\ optimized.toks # <<>>
  /\ ~outfile.written /\ stdout = <<>>

====
